---- MODULE Spec2Model ----
(***************************************************************************)
(* Model of the Polymarket alert bot (src/main.py): the alerts table, the  *)
(* /add conversation, /delete, and the background alerts_worker.           *)
(*                                                                         *)
(* Text is modelled as a sequence of one-character strings ("48" is        *)
(* <<"4","8">>), a market URL as a sequence of lexical tokens              *)
(* (<<"https://x","/","event","/","abc">>), an outcome as the sequence of  *)
(* its whitespace-separated words.  Money is fixed point: a token price    *)
(* counts 1/100 USD, a price in cents counts 1/1000 cent; one such unit    *)
(* stands for the rounding error of the worker's price_usd * 100.0.        *)
(***************************************************************************)
EXTENDS Integers, Sequences, FiniteSets, Bags, TLC

\* ---------------------------------------------------------------- bounds
MaxUrlTokens == 5   \* tokens of a URL after its scheme and netloc
MaxAlerts == 2      \* rows the alerts table may hold
MaxPending == 2     \* price-step handlers suspended on strike validation

Users == {1, 2}

\* ------------------------------------------------------- text primitives
None == "None"

Digits == <<"0", "1", "2", "3", "4", "5", "6", "7", "8", "9">>

IsDigit(c) == \E d \in 1..10 : Digits[d] = c

DigitVal(c) == (CHOOSE d \in 1..10 : Digits[d] = c) - 1

\* str.replace(old, new) for one-character old/new; new = "" deletes
RECURSIVE Replace(_, _, _)
Replace(s, old, new) ==
    IF s = <<>> THEN <<>>
    ELSE (IF Head(s) = old
            THEN (IF new = "" THEN <<>> ELSE <<new>>)
            ELSE <<Head(s)>>) \o Replace(Tail(s), old, new)

RECURSIVE DigitsValue(_, _)
DigitsValue(s, acc) ==
    IF s = <<>> THEN acc ELSE DigitsValue(Tail(s), acc * 10 + DigitVal(Head(s)))

AllDigits(s) == \A k \in 1..Len(s) : IsDigit(s[k])

\* int(s): the decimal value of a non-empty digit string, ValueError else
NoInt == -1
ParseInt(s) == IF s # <<>> /\ AllDigits(s) THEN DigitsValue(s, 0) ELSE NoInt

\* float(s) in units of 1/Scale: digits with at most one ".", or "nan";
\* ValueError (NoFloat) otherwise
NoFloat == -1
NaN == -2
Scale == 1000

RECURSIVE Pow10(_)
Pow10(n) == IF n = 0 THEN 1 ELSE 10 * Pow10(n - 1)

ParseFloat(s) ==
    LET dots == {k \in 1..Len(s) : s[k] = "."}
    IN  IF s = <<"n", "a", "n">> THEN NaN
        ELSE IF dots = {} THEN
            (IF s # <<>> /\ AllDigits(s) THEN DigitsValue(s, 0) * Scale ELSE NoFloat)
        ELSE IF Cardinality(dots) > 1 THEN NoFloat
        ELSE LET d == CHOOSE k \in dots : TRUE
                 ip == SubSeq(s, 1, d - 1)
                 fp == SubSeq(s, d + 1, Len(s))
             IN  IF AllDigits(ip) /\ AllDigits(fp) /\ Len(ip) + Len(fp) > 0
                 THEN DigitsValue(ip, 0) * Scale
                      + (DigitsValue(fp, 0) * Scale) \div Pow10(Len(fp))
                 ELSE NoFloat

\* the price step's float(message.text.replace(",", ".").strip())
ParsePrice(text) == ParseFloat(Replace(text, ",", "."))

\* ----------------------------------------------------- extract_event_slug
NetlocTokens == {"https://x"}

\* a scheme and a netloc urlparse rejects with ValueError ("http://[x")
BadNetlocTokens == {"http://[x"}

UrlParseRaises(url) == url # <<>> /\ Head(url) \in BadNetlocTokens

\* a URL that starts with "//" has its netloc up to the next "/", "?" or "#"
RECURSIVE DropNetloc(_)
DropNetloc(s) ==
    IF s = <<>> \/ Head(s) \in {"/", "?", "#"} THEN s ELSE DropNetloc(Tail(s))

\* urlparse(market_url).path: drop scheme://netloc, cut at "?" or "#"
UrlPath(url) ==
    LET rest == IF url # <<>> /\ Head(url) \in NetlocTokens THEN Tail(url)
                ELSE IF Len(url) >= 2 /\ url[1] = "/" /\ url[2] = "/"
                THEN DropNetloc(Tail(Tail(url)))
                ELSE url
        cut == {k \in 1..Len(rest) : rest[k] \in {"?", "#"}}
        end == IF cut = {} THEN Len(rest)
               ELSE (CHOOSE k \in cut : \A j \in cut : k <= j) - 1
    IN  SubSeq(rest, 1, end)

\* str.strip("/")
RECURSIVE LStrip(_)
LStrip(s) == IF s # <<>> /\ Head(s) = "/" THEN LStrip(Tail(s)) ELSE s

RECURSIVE RStrip(_)
RStrip(s) ==
    IF s # <<>> /\ s[Len(s)] = "/" THEN RStrip(SubSeq(s, 1, Len(s) - 1)) ELSE s

Strip(s) == RStrip(LStrip(s))

\* str.split("/"): the segments between the slashes, empty ones included
RECURSIVE SplitAcc(_, _, _)
SplitAcc(s, cur, acc) ==
    IF s = <<>> THEN Append(acc, cur)
    ELSE IF Head(s) = "/" THEN SplitAcc(Tail(s), <<>>, Append(acc, cur))
    ELSE SplitAcc(Tail(s), Append(cur, Head(s)), acc)

Split(s) == SplitAcc(s, <<>>, <<>>)

NoSlug == <<"None">>

\* mutation of extract_event_slug: parts[0] is not compared with "event"
extract_second_segment(market_url) ==
    LET parts == Split(Strip(UrlPath(market_url)))
    IN  IF UrlParseRaises(market_url) THEN NoSlug
        ELSE IF Len(parts) >= 2 THEN parts[2] ELSE NoSlug

\* `except Exception: return None` covers the ValueError of urlparse
extract_event_slug(market_url) ==
    LET parts == Split(Strip(UrlPath(market_url)))
    IN  IF UrlParseRaises(market_url) THEN NoSlug
        ELSE IF Len(parts) >= 2 /\ parts[1] = <<"event">> THEN parts[2] ELSE NoSlug

\* `if not slug`: None and the empty string are both falsy
HasSlug(slug) == slug # NoSlug /\ slug # <<>>

\* ------------------------------------------------- Gamma events (metadata)
\* a market: its groupItemTitle and its clobTokenIds, a JSON-encoded string
\* that is a list ("list", with ids), not JSON ("invalid") or absent
Market(title, json, ids) ==
    [groupItemTitle |-> title, clobTokenIds |-> [json |-> json, ids |-> ids]]

EventFull ==
    [markets |-> << Market(<<"7", "8", ",", "0", "0", "0">>, "list", <<"t78y", "t78n">>),
                    Market(<<"8", "2", ",", "0", "0", "0">>, "list", <<"t82y", "t82n">>) >>]

EventOther ==
    [markets |-> << Market(<<"7", "8", ",", "0", "0", "0">>, "list", <<"t78y", "t78n">>) >>]

EventBroken ==
    [markets |-> << Market(<<"8", "2", ",", "0", "0", "0">>, "invalid", <<>>) >>]

Events == {EventFull, EventOther, EventBroken}

\* what `await fetch_event_by_slug(slug)` can come back with: an exception
\* (network error, timeout, raise_for_status), None (no event), an event
NoEvent == [markets |-> <<>>]
FetchRaise == [kind |-> "raise", event |-> NoEvent]
FetchNone == [kind |-> "none", event |-> NoEvent]
FetchEventResults ==
    {FetchRaise, FetchNone} \cup {[kind |-> "event", event |-> e] : e \in Events}

\* title.replace(",", "").strip() then int(); NoInt on ValueError
StrikeOfTitle(title) == ParseInt(Replace(title, ",", ""))

\* the leading integer of an outcome: int(parts[0]) when there are parts
StrikeOfOutcome(outcome) ==
    IF outcome = <<>> THEN NoInt ELSE ParseInt(outcome[1])

\* the loop of strike_exists_in_event over event["markets"]
StrikeInMarkets(event, strike) ==
    \E k \in 1..Len(event.markets) :
        StrikeOfTitle(event.markets[k].groupItemTitle) = strike

\* strike_exists_in_event after the await: fetched is the fetch's result
\* (an exception propagates to the caller, see AddFlowStrikeReturn)
strike_exists_in_event(fetched, strike) ==
    IF fetched.kind = "none" THEN FALSE ELSE StrikeInMarkets(fetched.event, strike)

LowerChar(c) ==
    CASE c = "Y" -> "y" [] c = "E" -> "e" [] c = "S" -> "s"
      [] c = "N" -> "n" [] c = "O" -> "o" [] OTHER -> c

Lower(w) == [k \in 1..Len(w) |-> LowerChar(w[k])]

\* ("no", "нет", "нету"): the member written in the letters of the outcomes here
NoWords == {<<"n", "o">>}

SideYes(outcome) ==
    ~(Len(outcome) >= 2 /\ Lower(outcome[2]) \in NoWords)

\* mutation of pick_token_id_for_outcome: without a market of the strike the
\* first market is taken
pick_token_id_first_market_fallback(event, outcome) ==
    LET markets == event.markets
        strike == StrikeOfOutcome(outcome)
        hits == {k \in 1..Len(markets) :
                    StrikeOfTitle(markets[k].groupItemTitle) = strike}
    IN  IF markets = <<>> THEN None
        ELSE LET chosen == IF hits = {} THEN markets[1]
                           ELSE markets[CHOOSE k \in hits : \A j \in hits : k <= j]
                 clob == chosen.clobTokenIds
             IN  IF clob.json # "list" \/ Len(clob.ids) < 2 THEN None
                 ELSE IF SideYes(outcome) THEN clob.ids[1] ELSE clob.ids[2]

pick_token_id_for_outcome(event, outcome) ==
    LET markets == event.markets
        strike == StrikeOfOutcome(outcome)
        hits == {k \in 1..Len(markets) :
                    StrikeOfTitle(markets[k].groupItemTitle) = strike}
    IN  IF markets = <<>> \/ strike = NoInt \/ hits = {} THEN None
        ELSE LET chosen == markets[CHOOSE k \in hits : \A j \in hits : k <= j]
                 clob == chosen.clobTokenIds
             IN  IF clob.json # "list" \/ Len(clob.ids) < 2 THEN None
                 ELSE IF SideYes(outcome) THEN clob.ids[1] ELSE clob.ids[2]

\* what `await fetch_token_price(token_id)` can come back with: an exception,
\* None (non-200, no price field, unparsable), or a price in 1/100 USD
PriceRaise == -1
PriceNone == -2
TokenPrices == {10, 29, 52}
FetchPriceResults == {PriceRaise, PriceNone} \cup TokenPrices

\* The prices 0.00 .. 1.00 of two decimals whose double, multiplied by
\* 100.0, is below the number of cents (0.29 * 100.0 = 28.999999999999996)
\* or above it (0.07 * 100.0 = 7.000000000000001)
ProductBelow == {29, 57, 58}
ProductAbove == {7, 14, 28, 55, 56}

\* current_cents = price_usd * 100.0
CurrentCents(price_usd) ==
    price_usd * Scale + (IF price_usd \in ProductBelow THEN -1
                         ELSE IF price_usd \in ProductAbove THEN 1 ELSE 0)

ShouldTrigger(direction, current_cents, target_price_cents) ==
    \/ direction = ">=" /\ current_cents >= target_price_cents
    \/ direction = "<=" /\ current_cents <= target_price_cents

\* ------------------------------------------------------- the alerts table
\* INSERT ... VALUES (?, ?, ?, ?, '>=', 1); the id is AUTOINCREMENT
add_alert(tbl, user_id, market_url, outcome, target_price) ==
    Append(tbl, [id |-> Len(tbl) + 1, user_id |-> user_id, market_url |-> market_url,
                 outcome |-> outcome, target_price |-> target_price,
                 direction |-> ">=", active |-> TRUE])

\* target_price REAL NOT NULL: SQLite binds a NaN as NULL, the INSERT fails
AddAlertRaises(target_price) == target_price = NaN

\* mutation of DeactivateMatches: the AND active = 1 is lost
DeactivateMatchesAnyState(tbl, user_id, alert_id) ==
    {k \in 1..Len(tbl) : tbl[k].id = alert_id /\ tbl[k].user_id = user_id}

\* mutation of DeactivateMatches: the AND user_id = ? is lost
DeactivateMatchesAnyOwner(tbl, user_id, alert_id) ==
    {k \in 1..Len(tbl) : tbl[k].id = alert_id /\ tbl[k].active}

\* the rows the UPDATE's WHERE clause selects
DeactivateMatches(tbl, user_id, alert_id) ==
    {k \in 1..Len(tbl) :
        tbl[k].id = alert_id /\ tbl[k].user_id = user_id /\ tbl[k].active}

\* mutation of deactivate_alert: DELETE FROM alerts WHERE ... (a hard delete)
deactivate_alert_deletes(tbl, user_id, alert_id) ==
    SelectSeq(tbl, LAMBDA r :
        ~(r.id = alert_id /\ r.user_id = user_id /\ r.active))

\* UPDATE alerts SET active = 0 WHERE id = ? AND user_id = ? AND active = 1
deactivate_alert(tbl, user_id, alert_id) ==
    [k \in 1..Len(tbl) |->
        IF k \in DeactivateMatches(tbl, user_id, alert_id)
        THEN [tbl[k] EXCEPT !.active = FALSE] ELSE tbl[k]]

\* return cur.rowcount > 0
DeactivateFound(tbl, user_id, alert_id) ==
    DeactivateMatches(tbl, user_id, alert_id) # {}

RowOf(r) ==
    [id |-> r.id, user_id |-> r.user_id, market_url |-> r.market_url,
     outcome |-> r.outcome, target_price |-> r.target_price, direction |-> r.direction]

Rows(sel) == [k \in 1..Len(sel) |-> RowOf(sel[k])]

\* mutation of get_all_active_alerts: the WHERE active = 1 is lost
get_all_alerts_unfiltered(tbl) == Rows(tbl)

\* SELECT ... FROM alerts WHERE active = 1
get_all_active_alerts(tbl) ==
    Rows(SelectSeq(tbl, LAMBDA r : r.active))

\* the columns cmd_list reads: id, market_url, outcome, target_price, direction
ListedRowOf(r) ==
    [id |-> r.id, market_url |-> r.market_url, outcome |-> r.outcome,
     target_price |-> r.target_price, direction |-> r.direction]

\* SELECT ... FROM alerts WHERE user_id = ? AND active = 1 ORDER BY id
get_user_alerts(tbl, user_id) ==
    LET sel == SelectSeq(tbl, LAMBDA r : r.user_id = user_id /\ r.active)
    IN  [k \in 1..Len(sel) |-> ListedRowOf(sel[k])]

\* ------------------------------------------------------ what users can send
UrlGood == <<"https://x", "/", "event", "/", "abc", "/", "abc-market">>
UrlNoEvent == <<"https://x", "/", "market", "/", "abc">>
Urls == {UrlGood, UrlNoEvent}

OutcomeYes == << <<"8", "2", "0", "0", "0">>, <<"Y", "E", "S">> >>
OutcomeNoStrike == << <<"Y", "E", "S">> >>
Outcomes == {OutcomeYes, OutcomeNoStrike}

PriceTexts == { <<"1", "2", ",", "5">>, <<"x">>, <<"n", "a", "n">> }

\* the argument of /delete: absent, not a number, or an id
DeleteArgs == {<<>>, <<"x">>} \cup {<<Digits[k + 1]>> : k \in 1..(MaxAlerts + 1)}

\* ------------------------------------------------------------------ state
VARIABLES
    alerts,          \* the alerts table, rows in id order
    user_add_state,  \* the dict user_id -> {"step", "market_url", "outcome"}
    pending,         \* bag of price-step handlers awaiting fetch_event_by_slug
    worker,          \* alerts_worker: position and locals
    notes,           \* per alert id: send attempts and deliveries so far
    reply,           \* what the handler step just taken answered ("none":
                     \* nothing, or a worker step)
    call             \* a helper function called on its own: its arguments
                     \* and, once it has returned, its result

vars == <<alerts, user_add_state, pending, worker, notes, reply, call>>

\* dict assignment d[k] = v and d.pop(k, None)
Put(d, k, v) == [x \in (DOMAIN d) \cup {k} |-> IF x = k THEN v ELSE d[x]]
Pop(d, k) == [x \in (DOMAIN d) \ {k} |-> d[x]]
EmptyDict == [x \in {} |-> 0]

\* result: how the previous alert of this cycle ended (history)
\* chat_id: whom bot.send_message was called for (0: no send under way)
WorkerIdle == [pc |-> "sleep", snapshot |-> <<>>, i |-> 1, token_id |-> None,
               current_cents |-> 0, chat_id |-> 0, stale |-> FALSE, result |-> "none"]

NoNote == [attempts |-> 0, delivered |-> 0, late |-> FALSE]

\* no helper is being called on its own
NoCall == [fn |-> "none"]

Init ==
    /\ alerts = <<>>
    /\ user_add_state = EmptyDict
    /\ pending = EmptyBag
    /\ worker = WorkerIdle
    /\ notes = <<>>
    /\ reply = "none"
    /\ call = NoCall

\* ------------------------------------------------------------------ /add
\* mutation of cmd_add_state: the step is reset on the existing dict
cmd_add_keeps_fields(st, user_id) ==
    Put(st, user_id, IF user_id \in DOMAIN st
                     THEN [k \in DOMAIN st[user_id] |->
                              IF k = "step" THEN 1 ELSE st[user_id][k]]
                     ELSE [step |-> 1])

\* user_add_state[user_id] = {"step": 1}
cmd_add_state(st, user_id) == Put(st, user_id, [step |-> 1])

cmd_add(u) ==
    /\ user_add_state' = cmd_add_state(user_add_state, u)
    /\ reply' = "prompt_url"
    /\ UNCHANGED <<call, alerts, pending, worker, notes>>

\* ----------------------------------------------------------------- /list
\* the answer of cmd_list: one block per row of get_user_alerts
cmd_list(u) ==
    /\ reply' = IF get_user_alerts(alerts, u) = <<>> THEN "no_alerts" ELSE "listed"
    /\ UNCHANGED <<call, alerts, user_add_state, pending, worker, notes>>

\* --------------------------------------------------------------- /delete
\* the answer of cmd_delete for the text after the command
DeleteReply(tbl, u, arg) ==
    IF arg = <<>> THEN "need_id"
    ELSE IF ParseInt(arg) = NoInt THEN "id_not_number"
    ELSE IF DeactivateFound(tbl, u, ParseInt(arg)) THEN "deactivated"
    ELSE "not_found"

cmd_delete(u, arg) ==
    /\ alerts' = IF arg = <<>> \/ ParseInt(arg) = NoInt THEN alerts
                 ELSE deactivate_alert(alerts, u, ParseInt(arg))
    /\ reply' = DeleteReply(alerts, u, arg)
    /\ UNCHANGED <<call, user_add_state, pending, worker, notes>>

\* ------------------------------------------- handle_add_flow_or_default
\* state[key] = value on the user's state dict
SetKey(state, key, value) ==
    [k \in (DOMAIN state) \cup {key} |-> IF k = key THEN value ELSE state[k]]

\* a message of a user who is not in user_add_state: return
AddFlowIgnored(u) ==
    /\ u \notin DOMAIN user_add_state
    /\ reply' = "none"
    /\ UNCHANGED <<call, alerts, user_add_state, pending, worker, notes>>

\* step 1: state["market_url"] = text; state["step"] = 2
AddFlowUrlState(st, u, text) ==
    Put(st, u, SetKey(SetKey(st[u], "market_url", text), "step", 2))

AddFlowUrl(u, text) ==
    /\ u \in DOMAIN user_add_state
    /\ user_add_state[u].step = 1
    /\ user_add_state' = AddFlowUrlState(user_add_state, u, text)
    /\ reply' = "prompt_outcome"
    /\ UNCHANGED <<call, alerts, pending, worker, notes>>

\* step 2: state["outcome"] = text; state["step"] = 3
AddFlowOutcomeState(st, u, text) ==
    Put(st, u, SetKey(SetKey(st[u], "outcome", text), "step", 3))

AddFlowOutcome(u, text) ==
    /\ u \in DOMAIN user_add_state
    /\ user_add_state[u].step = 2
    /\ user_add_state' = AddFlowOutcomeState(user_add_state, u, text)
    /\ reply' = "prompt_price"
    /\ UNCHANGED <<call, alerts, pending, worker, notes>>

\* step 3 up to the await in strike_exists_in_event.  The replies that need
\* no network call are given at once; otherwise the handler is suspended
\* with its locals (market_url, outcome, target_price) in `pending`.
PriceStepVerdict(state, text) ==
    IF ParsePrice(text) = NoFloat THEN "bad_number"
    ELSE IF StrikeOfOutcome(state.outcome) = NoInt THEN "no_strike"
    ELSE IF ~HasSlug(extract_event_slug(state.market_url)) THEN "strike_absent"
    ELSE "await_fetch"

Handler(u, state, text) ==
    [user |-> u, market_url |-> state.market_url, outcome |-> state.outcome,
     target_price |-> ParsePrice(text)]

AddFlowPrice(u, text) ==
    /\ u \in DOMAIN user_add_state
    /\ user_add_state[u].step = 3
    /\ LET state == user_add_state[u]
           verdict == PriceStepVerdict(state, text)
       IN  IF verdict = "await_fetch" THEN
               /\ BagCardinality(pending) < MaxPending
               /\ Len(alerts) + BagCardinality(pending) < MaxAlerts
               /\ pending' = pending (+) SetToBag({Handler(u, state, text)})
               /\ reply' = "none"
           ELSE
               /\ pending' = pending
               /\ reply' = verdict
    /\ UNCHANGED <<call, alerts, user_add_state, worker, notes>>

\* step 3 after the await: what the handler does once fetch_event_by_slug
\* has come back with r.  "raise": the exception leaves the handler;
\* "strike_absent": the reply of lines 397-402; "add_raise": add_alert
\* raised; "added": the alert is stored and the state popped.
StrikeReturnVerdict(h, r) ==
    IF r.kind = "raise" THEN "raise"
    ELSE IF ~strike_exists_in_event(r, StrikeOfOutcome(h.outcome)) THEN "strike_absent"
    ELSE IF AddAlertRaises(h.target_price) THEN "add_raise"
    ELSE "added"

\* the answer sent: none when an exception left the handler
StrikeReturnReply(verdict) ==
    IF verdict \in {"raise", "add_raise"} THEN "none" ELSE verdict

\* mutation of StateAfterStrikeReturn: the pop moved before the validation
StateAlwaysPopped(st, u, verdict) == Pop(st, u)

\* user_add_state.pop(user_id, None) after add_alert, nothing otherwise
StateAfterStrikeReturn(st, u, verdict) ==
    IF verdict = "added" THEN Pop(st, u) ELSE st

AddFlowStrikeReturn(h, r) ==
    /\ BagIn(h, pending)
    /\ pending' = pending (-) SetToBag({h})
    /\ LET verdict == StrikeReturnVerdict(h, r)
       IN  /\ alerts' = IF verdict = "added"
                        THEN add_alert(alerts, h.user, h.market_url, h.outcome,
                                       h.target_price)
                        ELSE alerts
           /\ notes' = IF verdict = "added" THEN Append(notes, NoNote) ELSE notes
           /\ user_add_state' = StateAfterStrikeReturn(user_add_state, h.user, verdict)
           /\ reply' = StrikeReturnReply(verdict)
    /\ UNCHANGED <<call, worker>>

\* ------------------------------------------------------------ alerts_worker
\* The worker is suspended at "sleep" (asyncio.sleep) and at its three
\* awaits: "fetch_event", "fetch_price", "send".  Between two of them it
\* runs without interruption (one cooperative scheduler), so each action
\* below goes from one suspension to the next.
InCycle == {"fetch_event", "fetch_price", "send"}

\* mutation of NextAlert: the iteration drops the alert after the current one
NextAlertSkipsOne(w, result) ==
    [w EXCEPT !.i = w.i + 2, !.token_id = None, !.current_cents = 0,
              !.chat_id = 0, !.stale = FALSE, !.result = result]

\* the next iteration of `for ... in alerts`
NextAlert(w, result) ==
    [w EXCEPT !.i = w.i + 1, !.token_id = None, !.current_cents = 0,
              !.chat_id = 0, !.stale = FALSE, !.result = result]

\* lines 438-445 and 490: from the head of the loop to the next await: the
\* fetch of the first alert left that has a slug, or the sleep after the last
RECURSIVE RunToAwait(_)
RunToAwait(w) ==
    IF w.i > Len(w.snapshot) THEN [w EXCEPT !.pc = "sleep"]
    ELSE IF ~HasSlug(extract_event_slug(w.snapshot[w.i].market_url))
    THEN RunToAwait(NextAlert(w, "no_slug"))
    ELSE [w EXCEPT !.pc = "fetch_event"]

\* `continue`
Continue(w, result) == RunToAwait(NextAlert(w, result))

\* mutation of OnAlertException: the try around the whole loop, an exception
\* ends the cycle
ExceptionEndsCycle(w, result) == [w EXCEPT !.pc = "sleep", !.result = result]

\* `except Exception as e: print(...)`: the loop goes on with the next alert
OnAlertException(w, result) == RunToAwait(NextAlert(w, result))

\* mutation of TokenMissing: the check of token_id is lost
TokenNeverMissing(token_id) == FALSE

\* `if not token_id`
TokenMissing(token_id) == token_id = None \/ token_id = ""

\* `if price_usd is None`
PriceMissing(p) == p = PriceNone

\* alerts = get_all_active_alerts(), then into the loop
WorkerSnapshot ==
    /\ worker.pc = "sleep"
    /\ worker' = RunToAwait([WorkerIdle EXCEPT
                                !.snapshot = get_all_active_alerts(alerts)])
    /\ reply' = "none"
    /\ UNCHANGED <<call, alerts, user_add_state, pending, notes>>

\* lines 445-455: the worker once fetch_event_by_slug has come back with r
AfterEvent(w, r) ==
    LET token_id == pick_token_id_for_outcome(r.event, w.snapshot[w.i].outcome)
    IN  IF r.kind = "raise" THEN OnAlertException(w, "fetch_raise")
        ELSE IF r.kind = "none" THEN Continue(w, "no_event")
        ELSE IF TokenMissing(token_id) THEN Continue(w, "no_token")
        ELSE [w EXCEPT !.pc = "fetch_price", !.token_id = token_id]

WorkerEventReturn(r) ==
    /\ worker.pc = "fetch_event"
    /\ worker' = AfterEvent(worker, r)
    /\ reply' = "none"
    /\ UNCHANGED <<call, alerts, user_add_state, pending, notes>>

\* lines 455-481: the worker once fetch_token_price has come back with p;
\* at "send" bot.send_message has been called (stale: for an alert that is
\* no longer active in the table)
AfterPrice(w, p, tbl) ==
    LET row == w.snapshot[w.i]
    IN  IF p = PriceRaise THEN OnAlertException(w, "price_raise")
        ELSE IF PriceMissing(p) THEN Continue(w, "no_price")
        ELSE IF ~ShouldTrigger(row.direction, CurrentCents(p), row.target_price)
        THEN RunToAwait(NextAlert(w, "not_triggered"))
        ELSE [w EXCEPT !.pc = "send", !.current_cents = CurrentCents(p),
                       !.chat_id = row.user_id, !.stale = ~tbl[row.id].active]

WorkerPriceReturn(p) ==
    /\ worker.pc = "fetch_price"
    /\ worker' = AfterPrice(worker, p, alerts)
    /\ reply' = "none"
    /\ UNCHANGED <<call, alerts, user_add_state, pending, notes>>

\* mutation of AfterSend: deactivate_alert moved inside the try, after the send
AfterSendOnlyIfDelivered(tbl, row, ok) ==
    IF ok THEN deactivate_alert(tbl, row.user_id, row.id) ELSE tbl

\* lines 480-485: after bot.send_message returned (ok) or raised (~ok)
AfterSend(tbl, row, ok) == deactivate_alert(tbl, row.user_id, row.id)

WorkerSendReturn(ok) ==
    /\ worker.pc = "send"
    /\ LET row == worker.snapshot[worker.i]
       IN  /\ alerts' = AfterSend(alerts, row, ok)
           /\ notes' = [notes EXCEPT ![row.id] =
                 [attempts |-> @.attempts + 1,
                  delivered |-> @.delivered + (IF ok THEN 1 ELSE 0),
                  late |-> @.late \/ (ok /\ worker.stale)]]
    /\ worker' = RunToAwait(NextAlert(worker, IF ok THEN "sent" ELSE "send_failed"))
    /\ reply' = "none"
    /\ UNCHANGED <<call, user_add_state, pending>>

\* ------------------------------------------------------------ specification
\* the /add conversation of `users`, for the texts they may send at each step
Conversation(users, urls, outcomes, prices) ==
    \/ \E u \in users : cmd_add(u)
    \/ \E u \in users : AddFlowIgnored(u)
    \/ \E u \in users, text \in urls : AddFlowUrl(u, text)
    \/ \E u \in users, text \in outcomes : AddFlowOutcome(u, text)
    \/ \E u \in users, text \in prices : AddFlowPrice(u, text)
    \/ \E h \in BagToSet(pending), r \in FetchEventResults : AddFlowStrikeReturn(h, r)

\* /delete
Deletes(users, args) == \E u \in users, arg \in args : cmd_delete(u, arg)

\* /list
Lists(users) == \E u \in users : cmd_list(u)

\* the steps of the background task
WorkerSteps ==
    \/ WorkerSnapshot
    \/ \E r \in FetchEventResults : WorkerEventReturn(r)
    \/ \E p \in FetchPriceResults : WorkerPriceReturn(p)
    \/ \E ok \in BOOLEAN : WorkerSendReturn(ok)

\* the steps of the background task when every fetch succeeds
WorkerStepsResolved ==
    \/ WorkerSnapshot
    \/ WorkerEventReturn([kind |-> "event", event |-> EventFull])
    \/ \E p \in TokenPrices : WorkerPriceReturn(p)
    \/ \E ok \in BOOLEAN : WorkerSendReturn(ok)

\* the whole program
Next ==
    \/ Conversation(Users, Urls, Outcomes, PriceTexts)
    \/ Deletes(Users, DeleteArgs)
    \/ Lists(Users)
    \/ WorkerSteps

Spec == Init /\ [][Next]_vars

\* The conversation alone, two users, every text.  Neither /delete nor the
\* worker touches user_add_state or pending, and neither adds a row.
NextFlow == Conversation(Users, Urls, Outcomes, PriceTexts)

SpecFlow == Init /\ [][NextFlow]_vars

\* the texts that pass validation (the others store nothing)
PassingPrices == { <<"2", "9">> }
IdArgs == {<<Digits[k + 1]>> : k \in 1..(MaxAlerts + 1)}

\* The table under /delete: two users create alerts and delete by any
\* argument.  What the worker does to the table, /delete does too.
NextStore ==
    \/ Conversation(Users, {UrlGood}, {OutcomeYes}, PassingPrices)
    \/ Deletes(Users, DeleteArgs)

SpecStore == Init /\ [][NextStore]_vars

\* The worker against the handlers of one user, who creates alerts and
\* deletes them by id while the worker is suspended.
NextWorker ==
    \/ Conversation({1}, {UrlGood}, {OutcomeYes}, PassingPrices)
    \/ Deletes({1}, IdArgs)
    \/ WorkerSteps

SpecWorker == Init /\ [][NextWorker]_vars

\* the ids the table can hold
OwnedIdArgs == {<<Digits[k + 1]>> : k \in 1..MaxAlerts}

\* the tables that n completed /add conversations of the users leave
RECURSIVE TablesAfter(_)
TablesAfter(n) ==
    IF n = 0 THEN {<<>>}
    ELSE TablesAfter(n - 1) \cup
         {add_alert(t, u, UrlGood, OutcomeYes, ParsePrice(<<"2", "9">>)) :
             t \in {x \in TablesAfter(n - 1) : Len(x) = n - 1}, u \in Users}

\* The alerts two users have created, under /delete, /list and a worker
\* whose fetches succeed: who may change, see and be told about whose alert.
InitOwners ==
    /\ alerts \in TablesAfter(MaxAlerts)
    /\ notes = [k \in 1..Len(alerts) |-> NoNote]
    /\ user_add_state = EmptyDict
    /\ pending = EmptyBag
    /\ worker = WorkerIdle
    /\ reply = "added"
    /\ call = NoCall

NextOwners ==
    \/ Deletes(Users, OwnedIdArgs)
    \/ Lists(Users)
    \/ WorkerStepsResolved

SpecOwners == InitOwners /\ [][NextOwners]_vars

\* the steps of the background task when the event resolves, the token is
\* found and the price, times 100, is at or above the alert's target
WorkerStepsTriggering ==
    \/ WorkerSnapshot
    \/ WorkerEventReturn([kind |-> "event", event |-> EventFull])
    \/ \E p \in TokenPrices :
          /\ worker.pc = "fetch_price"
          /\ p * Scale >= worker.snapshot[worker.i].target_price
          /\ WorkerPriceReturn(p)
    \/ \E ok \in BOOLEAN : WorkerSendReturn(ok)

\* One user creates alerts and never deletes them; the worker is a task of
\* the event loop and each of its awaits returns (the HTTP calls time out
\* after 10 s, the sleep after 60 s), so a worker step that can be taken is
\* eventually taken.
NextLive ==
    \/ Conversation({1}, {UrlGood}, {OutcomeYes}, PassingPrices)
    \/ WorkerStepsTriggering

SpecLive == Init /\ [][NextLive]_vars /\ WF_vars(WorkerStepsTriggering)

\* The conversations of users who send /add once each: the user has no
\* conversation state, no suspended handler and no alert yet.
FirstAdd(u) ==
    /\ u \notin DOMAIN user_add_state
    /\ \A h \in BagToSet(pending) : h.user # u
    /\ \A k \in 1..Len(alerts) : alerts[k].user_id # u
    /\ cmd_add(u)

NextOneAdd ==
    \/ \E u \in Users : FirstAdd(u)
    \/ \E u \in Users : AddFlowIgnored(u)
    \/ \E u \in Users, text \in Urls : AddFlowUrl(u, text)
    \/ \E u \in Users, text \in Outcomes : AddFlowOutcome(u, text)
    \/ \E u \in Users, text \in PriceTexts : AddFlowPrice(u, text)
    \/ \E h \in BagToSet(pending), r \in FetchEventResults : AddFlowStrikeReturn(h, r)

SpecOneAdd == Init /\ [][NextOneAdd]_vars

\* ------------------------------------------- the helpers called on their own
\* the program's variables stay as constructed while a helper is evaluated
ProgramIdle ==
    /\ alerts = <<>>
    /\ user_add_state = EmptyDict
    /\ pending = EmptyBag
    /\ worker = WorkerIdle
    /\ notes = <<>>
    /\ reply = "none"

T82 == <<"8", "2", ",", "0", "0", "0">>

\* events for pick_token_id_for_outcome: no markets, a title that is not a
\* number, a list of one id, the neighbours of 82000 only, the strike twice
EventNoNumber == [markets |-> << Market(<<"a", "b", "c">>, "list", <<"tay", "tan">>) >>]
EventShort == [markets |-> << Market(T82, "list", <<"t82y">>) >>]
EventNear ==
    [markets |-> << Market(<<"8", "1", ",", "9", "9", "9">>, "list", <<"t81y", "t81n">>),
                    Market(<<"8", "2", ",", "0", "0", "1">>, "list", <<"t83y", "t83n">>),
                    Market(<<"8", "2", "0">>, "list", <<"t820y", "t820n">>) >>]
EventTwice ==
    [markets |-> << Market(<<"7", "8", ",", "0", "0", "0">>, "list", <<"t78y", "t78n">>),
                    Market(T82, "list", <<"t82y", "t82n">>),
                    Market(<<"8", "2", "0", "0", "0">>, "list", <<"u82y", "u82n">>) >>]

PickEvents ==
    Events \cup {NoEvent, EventNoNumber, EventShort, EventNear, EventTwice}

W82 == <<"8", "2", "0", "0", "0">>

\* outcome strings, split into words: sides in either case, omitted,
\* unrecognized; no words, no leading integer, a strike with a separator
PickOutcomes ==
    { <<W82, <<"Y", "E", "S">> >>, <<W82, <<"y", "e", "s">> >>,
      <<W82, <<"N", "O">> >>, <<W82, <<"n", "o">> >>, <<W82, <<"N", "o">> >>,
      <<W82>>, <<W82, <<"x">> >>, <<W82, <<"x">>, <<"n", "o">> >>,
      << <<"7", "8", "0", "0", "0">>, <<"n", "o">> >>,
      << <<"8", "0", "0", "0", "0">>, <<"y", "e", "s">> >>,
      << T82, <<"y", "e", "s">> >>,
      << <<"y", "e", "s">> >>, << <<"n", "o">>, W82 >>, <<>> }

InitPick ==
    /\ ProgramIdle
    /\ call \in {[fn |-> "pick", event |-> e, outcome |-> o, done |-> FALSE,
                  token_id |-> None] : e \in PickEvents, o \in PickOutcomes}

\* token_id = pick_token_id_for_outcome(event, outcome)
CallPick ==
    /\ call.fn = "pick"
    /\ ~call.done
    /\ call' = [call EXCEPT !.done = TRUE,
                   !.token_id = pick_token_id_for_outcome(call.event, call.outcome)]
    /\ UNCHANGED <<alerts, user_add_state, pending, worker, notes, reply>>

SpecPick == InitPick /\ [][CallPick]_vars

\* URLs for extract_event_slug: with a netloc, with one urlparse rejects, or
\* without; then up to MaxUrlTokens of "/", "?", "event" and another segment
UrlTokens == {"/", "?", "event", "abc"}

RECURSIVE TokenSeqs(_)
TokenSeqs(n) ==
    IF n = 0 THEN {<<>>}
    ELSE TokenSeqs(n - 1) \cup
         {Append(t, c) : t \in {x \in TokenSeqs(n - 1) : Len(x) = n - 1}, c \in UrlTokens}

SlugUrls ==
    {pre \o t : pre \in {<<>>, <<"https://x">>, <<"http://[x">>},
                t \in TokenSeqs(MaxUrlTokens)}

InitSlug ==
    /\ ProgramIdle
    /\ call \in {[fn |-> "slug", market_url |-> u, done |-> FALSE, slug |-> NoSlug] :
                    u \in SlugUrls}

\* slug = extract_event_slug(market_url)
CallSlug ==
    /\ call.fn = "slug"
    /\ ~call.done
    /\ call' = [call EXCEPT !.done = TRUE, !.slug = extract_event_slug(call.market_url)]
    /\ UNCHANGED <<alerts, user_add_state, pending, worker, notes, reply>>

SpecSlug == InitSlug /\ [][CallSlug]_vars

\* ----------------------------------------------------------------- claims
AlertIds == 1..Len(alerts)

SnapshotIds(w) == {w.snapshot[k].id : k \in 1..Len(w.snapshot)}

\* the worker has taken a snapshot that no longer holds the alert
LaterCycleWithout(id) ==
    /\ worker.pc \in InCycle
    /\ worker.snapshot # <<>>
    /\ id \notin SnapshotIds(worker)

\* C1: whatever the handlers do between the worker's steps, no alert id is
\* ever delivered more than one notification.
C1_AtMostOneNotification ==
    \A id \in AlertIds : notes[id].delivered <= 1

\* an alert was notified, and a later cycle is evaluating another alert
C1_Witness ==
    \E id \in AlertIds : notes[id].delivered = 1 /\ LaterCycleWithout(id)

\* C2: an alert the worker decided to trigger is inactive once the worker
\* is done with it, whether the send succeeded or raised, and the send is
\* attempted once only.
C2_TriggeredIsDeactivated ==
    \A id \in AlertIds :
        /\ notes[id].attempts >= 1 => ~alerts[id].active
        /\ notes[id].attempts <= 1

\* a send that raised: the alert is inactive and a later cycle leaves it out
C2_Witness ==
    \E id \in AlertIds :
        /\ notes[id].attempts = 1
        /\ notes[id].delivered = 0
        /\ ~alerts[id].active
        /\ LaterCycleWithout(id)

\* C3: the worker delivers no notification for an alert that was already
\* inactive when the worker called bot.send_message.
C3_NoNotificationOnceInactive ==
    \A id \in AlertIds : ~notes[id].late

\* C4: a cycle walks its snapshot from the first alert to the last, one
\* alert at a time, whatever happens to each: between two suspensions the
\* worker stays on its alert or moves past it (and past alerts without a
\* slug), it keeps its snapshot, and it sleeps only past the last alert.
NoSlugBetween(w, from, to) ==
    \A k \in (from + 1)..(to - 1) :
        extract_event_slug(w.snapshot[k].market_url) \in {NoSlug, <<>>}

C4_Step ==
    /\ worker.pc \in InCycle =>
          /\ worker'.snapshot = worker.snapshot
          /\ worker'.i >= worker.i
          /\ NoSlugBetween(worker, worker.i, worker'.i)
    /\ (worker.pc = "sleep" /\ worker' # worker) => NoSlugBetween(worker', 0, worker'.i)
    /\ worker'.pc = "sleep" <=> worker'.i = Len(worker'.snapshot) + 1

C4_EveryAlertReached == [][C4_Step]_vars

\* the processing of the first alert of a snapshot of two ended in an
\* exception and the worker is fetching the event of the second
C4_Witness ==
    /\ Len(worker.snapshot) = 2
    /\ worker.i = 2
    /\ worker.pc = "fetch_event"
    /\ worker.result \in {"fetch_raise", "price_raise"}

\* the worker is done with the current alert without having called
\* bot.send_message, and has touched no alert
SkippedUntouched ==
    /\ worker'.pc \in {"fetch_event", "sleep"}
    /\ worker'.i > worker.i
    /\ alerts' = alerts
    /\ notes' = notes

\* C5: when the event does not resolve (exception, no event), no instrument
\* is selected or the price is unavailable, the worker goes on to the next
\* alert having sent nothing and changed no alert; and every alert that is
\* active when the next cycle starts is in that cycle's snapshot.
C5_Step ==
    /\ \A r \in FetchEventResults :
          (/\ WorkerEventReturn(r)
           /\ \/ r.kind # "event"
              \/ pick_token_id_for_outcome(
                    r.event, worker.snapshot[worker.i].outcome) = None)
          => SkippedUntouched
    /\ \A p \in {PriceNone, PriceRaise} : WorkerPriceReturn(p) => SkippedUntouched
    /\ WorkerSnapshot =>
          /\ SnapshotIds(worker') = {id \in AlertIds : alerts[id].active}
          /\ alerts' = alerts
          /\ notes' = notes

C5_SkipLeavesAlertActive == [][C5_Step]_vars

\* an alert that was skipped in one cycle (no event, no instrument, no
\* price) is being evaluated again in a later one, active and never notified
C5_Witness ==
    /\ worker.pc = "fetch_event"
    /\ worker.i = 2
    /\ worker.result \in {"no_event", "no_token", "no_price"}
    /\ alerts[worker.snapshot[1].id].active
    /\ notes[worker.snapshot[1].id].attempts = 0

\* the fetched event holds the strike of the handler's outcome
StrikeConfirmed(h, r) ==
    r.kind = "event" /\ StrikeInMarkets(r.event, StrikeOfOutcome(h.outcome))

\* C6: when the strike validation of a price-step handler (parsable price,
\* outcome with a leading integer) comes back confirming the strike, exactly
\* one alert is appended, with the handler's user, market reference,
\* outcome and parsed price, direction ">=" and active, and the user has no
\* conversation state left; every stored alert has direction ">=".
C6_Step ==
    /\ \A h \in BagToSet(pending), r \in FetchEventResults :
          (AddFlowStrikeReturn(h, r) /\ StrikeConfirmed(h, r)) =>
             /\ Len(alerts') = Len(alerts) + 1
             /\ SubSeq(alerts', 1, Len(alerts)) = alerts
             /\ alerts'[Len(alerts')] =
                   [id |-> Len(alerts) + 1, user_id |-> h.user,
                    market_url |-> h.market_url, outcome |-> h.outcome,
                    target_price |-> h.target_price, direction |-> ">=",
                    active |-> TRUE]
             /\ h.user \notin DOMAIN user_add_state'
    /\ \A id \in 1..Len(alerts') : alerts'[id].direction = ">="

C6_ValidPriceStepPersistsOneAlert == [][C6_Step]_vars

\* C7: a price-step message that does not pass validation (price not a
\* number, outcome without a leading integer, URL without a slug, or a fetch
\* that does not confirm the strike) stores no alert and leaves
\* user_add_state as it is; where the failure is found before the network
\* call the user is at step 3 afterwards.
C7_Step ==
    /\ \A u \in Users, text \in PriceTexts :
          (/\ AddFlowPrice(u, text)
           /\ \/ ParsePrice(text) = NoFloat
              \/ StrikeOfOutcome(user_add_state[u].outcome) = NoInt
              \/ extract_event_slug(user_add_state[u].market_url) \in {NoSlug, <<>>})
          => /\ alerts' = alerts
             /\ pending' = pending
             /\ user_add_state' = user_add_state
             /\ user_add_state'[u].step = 3
    /\ \A h \in BagToSet(pending), r \in FetchEventResults :
          (AddFlowStrikeReturn(h, r) /\ ~StrikeConfirmed(h, r))
          => /\ alerts' = alerts
             /\ user_add_state' = user_add_state

C7_FailedValidationKeepsPriceStep == [][C7_Step]_vars

\* the fetch did not confirm the strike: the only conversation is still at
\* step 3 with its URL and outcome, and no alert is stored
C7_Witness ==
    /\ reply = "strike_absent"
    /\ alerts = <<>>
    /\ \E u \in Users :
          /\ DOMAIN user_add_state = {u}
          /\ user_add_state[u] =
                [step |-> 3, market_url |-> UrlGood, outcome |-> OutcomeYes]

\* C8: when the fetch of the event finds no event or raises, the handler
\* answers with the validation failure and leaves user_add_state as it is.
C8_Step ==
    \A h \in BagToSet(pending), r \in {FetchNone, FetchRaise} :
        AddFlowStrikeReturn(h, r) =>
           /\ reply' = "strike_absent"
           /\ user_add_state' = user_add_state

C8_ResolutionFailureIsAnswered == [][C8_Step]_vars

\* the keys a state dict holds at each step
KeysAtStep(step) ==
    CASE step = 1 -> {"step"}
      [] step = 2 -> {"step", "market_url"}
      [] step = 3 -> {"step", "market_url", "outcome"}

C9_StateShape ==
    /\ DOMAIN user_add_state \subseteq Users
    /\ \A u \in DOMAIN user_add_state :
          /\ user_add_state[u].step \in 1..3
          /\ DOMAIN user_add_state[u] = KeysAtStep(user_add_state[u].step)

C9_Step ==
    \A u \in Users :
        cmd_add(u) =>
           /\ user_add_state'[u] = [step |-> 1]
           /\ \A v \in Users \ {u} :
                 /\ v \in DOMAIN user_add_state' <=> v \in DOMAIN user_add_state
                 /\ v \in DOMAIN user_add_state =>
                       user_add_state'[v] = user_add_state[v]

\* C9: user_add_state holds one state per user, with the keys of its step,
\* and /add leaves its user with {"step": 1} exactly, no market reference
\* and no outcome, and every other user's state as it was.
C9_AddResetsOnlyOwnState == []C9_StateShape /\ [][C9_Step]_vars

\* user 1 sent /add while the validation of their price step was in flight,
\* user 2 is at the price step
C9_Witness ==
    /\ reply = "prompt_url"
    /\ DOMAIN user_add_state = {1, 2}
    /\ user_add_state[1] = [step |-> 1]
    /\ user_add_state[2].step = 3
    /\ \E h \in BagToSet(pending) : h.user = 1

\* C10: /delete with an id answers "deactivated" and clears the active flag
\* of that row alone when the row exists, belongs to the sender and is
\* active; otherwise (inactive already, absent, another owner's) it answers
\* "not_found" and the table is unchanged.
C10_Step ==
    \A u \in Users, arg \in DeleteArgs :
        (cmd_delete(u, arg) /\ ParseInt(arg) # NoInt) =>
           LET id == ParseInt(arg)
           IN  IF id \in 1..Len(alerts) /\ alerts[id].user_id = u /\ alerts[id].active
               THEN /\ reply' = "deactivated"
                    /\ alerts' = [alerts EXCEPT ![id].active = FALSE]
               ELSE /\ reply' = "not_found"
                    /\ alerts' = alerts

C10_DeactivateIdempotent == [][C10_Step]_vars

\* a /delete was answered not_found with the only alert inactive already
C10_Witness ==
    /\ reply = "not_found"
    /\ Len(alerts) = 1
    /\ ~alerts[1].active

\* C11: no step of the conversation, of /delete or of the worker removes a
\* row of the alerts table or sets active again on an inactive row, and the
\* id, owner, market reference, outcome, target price and direction of a
\* row stay what they were when it was created.
C11_Step ==
    /\ Len(alerts') >= Len(alerts)
    /\ \A k \in 1..Len(alerts) :
          /\ RowOf(alerts'[k]) = RowOf(alerts[k])
          /\ ~alerts[k].active => ~alerts'[k].active
    /\ \A k \in 1..Len(alerts') : alerts'[k].id = k

C11_SoftDeleteOnly == [][C11_Step]_vars

\* alert 1 was triggered and deactivated by the worker, alert 2 was created
\* afterwards, and a /delete 1 has just been answered not_found
C11_Witness ==
    /\ Len(alerts) = 2
    /\ ~alerts[1].active
    /\ notes[1].attempts = 1
    /\ alerts[2].active
    /\ reply = "not_found"

\* the markets of the event whose title, commas removed, is the integer
MarketsOfStrike(event, strike) ==
    {k \in 1..Len(event.markets) :
        /\ AllDigits(Replace(event.markets[k].groupItemTitle, ",", ""))
        /\ Replace(event.markets[k].groupItemTitle, ",", "") # <<>>
        /\ DigitsValue(Replace(event.markets[k].groupItemTitle, ",", ""), 0) = strike}

\* the market holds a list of two token ids
HasTokenPair(m) == m.clobTokenIds.json = "list" /\ Len(m.clobTokenIds.ids) >= 2

\* 2 when the second word of the outcome is "no" in any case, 1 otherwise
SideIndex(outcome) ==
    IF Len(outcome) >= 2 /\ Lower(outcome[2]) = <<"n", "o">> THEN 2 ELSE 1

\* C12: pick_token_id_for_outcome returns None when the outcome has no
\* leading integer or no market's title, commas removed, is that integer;
\* a token id it returns is that of a market of exactly that strike, the
\* first of the pair unless the second word is "no", then the second; and
\* it returns one whenever the markets of that strike hold a pair of ids.
C12_PickExactStrikeAndSide ==
    (call.fn = "pick" /\ call.done) =>
        LET strike == StrikeOfOutcome(call.outcome)
            hits == MarketsOfStrike(call.event, strike)
        IN  /\ (strike = NoInt \/ hits = {}) => call.token_id = None
            /\ call.token_id # None =>
                  \E k \in hits :
                      /\ HasTokenPair(call.event.markets[k])
                      /\ call.token_id =
                            call.event.markets[k].clobTokenIds.ids[SideIndex(call.outcome)]
            /\ (/\ strike # NoInt
                /\ hits # {}
                /\ \A k \in hits : HasTokenPair(call.event.markets[k]))
               => call.token_id # None

\* "82000 No" against the event with 78,000 and 82,000: the NO token of 82,000
C12_Witness ==
    /\ call.fn = "pick"
    /\ call.done
    /\ call.event = EventFull
    /\ call.outcome = <<W82, <<"N", "o">> >>
    /\ call.token_id = "t82n"

\* the tokens of the path from position k up to the next "/"
RECURSIVE SegmentAt(_, _)
SegmentAt(path, k) ==
    IF k > Len(path) \/ path[k] = "/" THEN <<>>
    ELSE <<path[k]>> \o SegmentAt(path, k + 1)

\* position k of the path starts a segment
SegmentStart(path, k) ==
    k \in 1..Len(path) /\ path[k] # "/" /\ (k = 1 \/ path[k - 1] = "/")

\* the ids of the path: the non-empty segments that follow a segment `event`
EventIds(path) ==
    {SegmentAt(path, k + 2) : k \in {j \in 1..Len(path) :
        /\ SegmentStart(path, j)
        /\ SegmentAt(path, j) = <<"event">>
        /\ SegmentStart(path, j + 2)}}

\* the number of non-empty segments of the path
NonEmptySegments(path) == Cardinality({k \in 1..Len(path) : SegmentStart(path, k)})

\* the first position of the path that is not a "/" (0: none)
FirstSegmentStart(path) ==
    IF \E k \in 1..Len(path) : path[k] # "/"
    THEN CHOOSE k \in 1..Len(path) : path[k] # "/" /\ \A j \in 1..(k - 1) : path[j] = "/"
    ELSE 0

\* the result is a segment of URL text, or None or ""
SlugIsValue(slug) ==
    slug = NoSlug \/ \A k \in 1..Len(slug) : slug[k] \in UrlTokens \ {"/", "?"}

\* C13 as stated: a URL that urlparse accepts and whose path holds a segment
\* `event` followed by an id yields such an id; a path with fewer than two
\* non-empty segments, or with no `event` segment followed by an id, yields
\* None (or ""); any URL yields a value.
C13_EventSegmentAnywhere ==
    (call.fn = "slug" /\ call.done) =>
        LET path == UrlPath(call.market_url)
        IN  /\ SlugIsValue(call.slug)
            /\ ~UrlParseRaises(call.market_url) =>
                  /\ EventIds(path) # {} => call.slug \in EventIds(path)
                  /\ (NonEmptySegments(path) < 2 \/ EventIds(path) = {})
                        => ~HasSlug(call.slug)

\* C13 amended: the id is returned when `event` is the first segment of the
\* path and the segment right after it is not empty; every other URL, one
\* that urlparse rejects included, yields None (or ""); any URL yields a value.
C13_EventFirstSegment ==
    (call.fn = "slug" /\ call.done) =>
        LET path == UrlPath(call.market_url)
            f == FirstSegmentStart(path)
        IN  /\ SlugIsValue(call.slug)
            /\ IF /\ ~UrlParseRaises(call.market_url)
                  /\ f > 0
                  /\ SegmentAt(path, f) = <<"event">>
                  /\ SegmentStart(path, f + 2)
               THEN call.slug = SegmentAt(path, f + 2)
               ELSE ~HasSlug(call.slug)

\* https://x/event/abc?: the slug is abc
C13_Witness ==
    /\ call.fn = "slug"
    /\ call.done
    /\ call.market_url = <<"https://x", "/", "event", "/", "abc", "?">>
    /\ call.slug = <<"abc">>

\* the condition of the claim on the exact numbers: price * 100 against the
\* target, both in 1/Scale cent
TriggerCondition(direction, price_usd, target_price_cents) ==
    \/ direction = ">=" /\ price_usd * Scale >= target_price_cents
    \/ direction = "<=" /\ price_usd * Scale <= target_price_cents

\* the worker has gone on to the next alert and has touched no alert
PassedOver ==
    /\ worker'.pc # "send"
    /\ worker'.i > worker.i
    /\ alerts' = alerts
    /\ notes' = notes

\* C14: when the price of an alert's token comes back, the worker calls
\* bot.send_message for the alert if and only if price * 100 meets the
\* target in the alert's direction, and otherwise goes on without a send or
\* a change to any alert; the send is followed by the deactivation; and for
\* ">=" a price that triggers makes every higher price trigger.
C14_Step ==
    /\ \A p \in TokenPrices :
          WorkerPriceReturn(p) =>
             LET row == worker.snapshot[worker.i]
             IN  IF TriggerCondition(row.direction, p, row.target_price)
                 THEN worker'.pc = "send" /\ worker'.i = worker.i
                 ELSE PassedOver
    /\ \A ok \in BOOLEAN :
          WorkerSendReturn(ok) =>
             LET row == worker.snapshot[worker.i]
             IN  /\ ~alerts'[row.id].active
                 /\ notes'[row.id].attempts = notes[row.id].attempts + 1
    /\ worker.pc = "fetch_price" =>
          \A p \in TokenPrices, q \in TokenPrices :
              (/\ p < q
               /\ worker.snapshot[worker.i].direction = ">="
               /\ AfterPrice(worker, p, alerts).pc = "send")
              => AfterPrice(worker, q, alerts).pc = "send"

C14_TriggerIffConditionHolds == [][C14_Step]_vars

\* an alert of user u has been appended in this step
AlertAddedFor(u) ==
    /\ Len(alerts') = Len(alerts) + 1
    /\ alerts'[Len(alerts')].user_id = u

\* C15: a text at step 1 is stored as market_url and the step becomes 2, a
\* text at step 2 is stored as outcome and the step becomes 3, neither
\* stores an alert; a user's step changes only to the next one or, by /add,
\* to 1; and a user's state is removed only at step 3, with the alert stored.
C15_Step ==
    /\ \A u \in Users, text \in Urls :
          AddFlowUrl(u, text) =>
             /\ user_add_state'[u] = [step |-> 2, market_url |-> text]
             /\ alerts' = alerts
    /\ \A u \in Users, text \in Outcomes :
          AddFlowOutcome(u, text) =>
             /\ user_add_state'[u] =
                   [step |-> 3, market_url |-> user_add_state[u].market_url,
                    outcome |-> text]
             /\ alerts' = alerts
    /\ \A u \in DOMAIN user_add_state :
          IF u \in DOMAIN user_add_state'
          THEN \/ user_add_state'[u] = user_add_state[u]
               \/ user_add_state'[u].step = user_add_state[u].step + 1
               \/ cmd_add(u)
          ELSE user_add_state[u].step = 3 /\ AlertAddedFor(u)

C15_ConversationIsLinear == [][C15_Step]_vars

\* C17: with one /add per user, no user ever has more than one alert.
C17_OneAlertPerAdd ==
    \A u \in Users : Cardinality({k \in 1..Len(alerts) : alerts[k].user_id = u}) <= 1

\* C18: when a suspended price-step handler completes while its user's
\* conversation state is a new one at step 1, user_add_state is left as it
\* is; and a state is removed only by a handler that stored an alert and
\* whose URL and outcome the state holds at step 3.
C18_Step ==
    \A h \in BagToSet(pending), r \in FetchEventResults :
        AddFlowStrikeReturn(h, r) =>
           /\ (h.user \in DOMAIN user_add_state /\ user_add_state[h.user].step = 1)
                 => user_add_state' = user_add_state
           /\ user_add_state' # user_add_state =>
                 /\ AlertAddedFor(h.user)
                 /\ user_add_state[h.user] =
                       [step |-> 3, market_url |-> h.market_url, outcome |-> h.outcome]

C18_CompletionKeepsNewState == [][C18_Step]_vars

\* the rows of the table that are active, as the worker reads them
ActiveRows == Rows(SelectSeq(alerts, LAMBDA r : r.active))

\* C16: the worker reads the table once per cycle, when it wakes up, and
\* the snapshot is then the active rows; during the cycle the snapshot stays
\* as read, the worker moves forward through it leaving out only alerts
\* without a slug, and an alert stored meanwhile is not in it; the worker
\* sleeps, and so reads again, only when it is past the last alert.
C16_Step ==
    /\ worker'.snapshot # worker.snapshot =>
          /\ worker.pc = "sleep"
          /\ worker.i = Len(worker.snapshot) + 1
          /\ worker'.snapshot = ActiveRows
    /\ (worker.pc = "sleep" /\ worker' # worker) =>
          /\ worker'.snapshot = ActiveRows
          /\ NoSlugBetween(worker', 0, worker'.i)
    /\ worker.pc \in InCycle =>
          /\ worker'.snapshot = worker.snapshot
          /\ worker'.i \in worker.i..(Len(worker.snapshot) + 1)
          /\ NoSlugBetween(worker, worker.i, worker'.i)
          /\ Len(alerts') > Len(alerts) => Len(alerts') \notin SnapshotIds(worker')
    /\ worker'.pc = "sleep" => worker'.i = Len(worker'.snapshot) + 1
    /\ worker'.pc \in InCycle => worker'.i \in 1..Len(worker'.snapshot)

C16_OneSnapshotPerCycle == [][C16_Step]_vars

\* alert 2 was stored while the worker was going through a snapshot that
\* holds alert 1 only, and both are active
C16_Witness ==
    /\ worker.pc \in InCycle
    /\ SnapshotIds(worker) = {1}
    /\ Len(alerts) = 2
    /\ alerts[1].active
    /\ alerts[2].active

\* the ids of user u's active alerts
ActiveIdsOf(u) == {k \in 1..Len(alerts) : alerts[k].user_id = u /\ alerts[k].active}

\* C19: /delete with the id of another user's alert answers not_found and
\* no /delete changes an alert of another user; /list shows the sender the
\* ids, URLs, outcomes, targets and directions of their own active alerts
\* and of no other; and bot.send_message is called for the owner of the
\* alert being processed.
C19_Step ==
    /\ \A u \in Users, arg \in OwnedIdArgs :
          cmd_delete(u, arg) =>
             LET id == ParseInt(arg)
             IN  /\ (id \in 1..Len(alerts) /\ alerts[id].user_id # u) =>
                       reply' = "not_found" /\ alerts' = alerts
                 /\ \A k \in 1..Len(alerts) :
                       alerts[k].user_id # u => alerts'[k] = alerts[k]
    /\ \A u \in Users :
          cmd_list(u) =>
             LET listed == get_user_alerts(alerts, u)
             IN  /\ {listed[k].id : k \in 1..Len(listed)} = ActiveIdsOf(u)
                 /\ \A k \in 1..Len(listed) :
                       listed[k] = ListedRowOf(alerts[listed[k].id])
                 /\ reply' = "no_alerts" <=> ActiveIdsOf(u) = {}
    /\ worker'.pc = "send" =>
          worker'.chat_id = alerts'[worker'.snapshot[worker'.i].id].user_id

C19_OwnersAreIsolated == [][C19_Step]_vars

\* the table is full, both users own an active alert, every id a /delete
\* can name exists, and a /delete has just been answered not_found: it named
\* the other user's alert
C19_Witness ==
    /\ reply = "not_found"
    /\ Len(alerts) = MaxAlerts
    /\ \A k \in 1..Len(alerts) : alerts[k].active
    /\ \A u \in Users : \E k \in 1..Len(alerts) : alerts[k].user_id = u

\* C20: with a fair worker, no /delete, and fetches that resolve the event,
\* select the token and give a price that meets the target, every alert that
\* is stored is eventually inactive after exactly one send attempt.
C20_EventuallyNotified ==
    \A id \in 1..MaxAlerts :
        (Len(alerts) >= id) ~>
            (Len(alerts) >= id /\ ~alerts[id].active /\ notes[id].attempts = 1)

====
